---- MODULE Spec2Model ----
(***************************************************************************)
(* Model of s1reader/s1_geo2rdr.py (the geo2rdr command line tool) and of  *)
(* the stripmap loading contract exercised by tests/test_stripmap.py.      *)
(*                                                                         *)
(* Numbers: longitudes, latitudes, heights, times and ranges are integers  *)
(* (multiples of one grid unit / one tick); a quotient a / b is the exact  *)
(* rational, kept as the pair (a, b).  Floating point rounding error of    *)
(* the subtraction and division is not modelled.                           *)
(* Optional values: None is the empty tuple, a present value v is <<v>>.   *)
(***************************************************************************)
EXTENDS Integers, Sequences, FiniteSets, TLC

VARIABLES
    args,      \* argparse namespace of the current invocation
    product,   \* the Sentinel-1 product behind args.s1_file
    dem,       \* the raster behind args.dem
    pc,        \* position of main
    h,         \* main: h (None until resolved)
    stdout,    \* lines printed so far
    calls,     \* external calls made so far, in order
    files,     \* paths created or written by the run
    orb_file,  \* _get_overlapping_bursts: orb_file
    iw,        \* _get_overlapping_bursts: loop variable iw
    loaded,    \* value of the last s1reader.load_bursts call
    bursts,    \* _get_overlapping_bursts: bursts
    idx,       \* main: position of the for loop in the returned list (1-based)
    window,    \* main: the locals rows, cols of the --outfile block
    error,     \* the exception that ended the run (None while there is none)
    oracle,    \* outcomes of external calls seen so far (external data is fixed)
    run,       \* number of the invocation (1 or 2)
    prev       \* what the previous invocation left: stdout, calls, files, error

vars == <<args, product, dem, pc, h, stdout, calls, files, orb_file, iw, loaded,
          bursts, idx, window, error, oracle, run, prev>>

None == <<>>

Some(v) == <<v>>

\* ---------------------------------------------------------------- bounds
MaxLon == 2

MaxLat == 1

MaxBuffer == 1

\* ------------------------------------------------------ integer helpers
Abs(x) == IF x < 0 THEN -x ELSE x

\* floor(a / b) for b # 0
FloorDiv(a, b) == IF b > 0 THEN a \div b ELSE (-a) \div (-b)

\* Python int(float): truncation toward zero
TruncDiv(a, b) ==
    LET q == Abs(a) \div Abs(b)
    IN  IF (a < 0) = (b < 0) THEN q ELSE -q

RoundHalfUp(n, d) == FloorDiv(2 * n + d, 2 * d)

\* Python round(n / d) for d > 0: nearest integer, a tie goes to the even one
Round(n, d) ==
    LET q == FloorDiv(n, d)
        r == n - q * d
    IN  IF 2 * r < d THEN q
        ELSE IF 2 * r > d THEN q + 1
        ELSE IF q % 2 = 0 THEN q ELSE q + 1

\* ------------------------------------------------------------- geometry
\* A polygon is an axis-parallel rectangle [x0, x1, y0, y1].  shapely's
\* contains() is true for interior points only: a point on the boundary of
\* the footprint is not contained.
ContainsClosed(border, lon, lat) ==
    \E i \in 1..Len(border) :
        /\ border[i].x0 <= lon /\ lon <= border[i].x1
        /\ border[i].y0 <= lat /\ lat <= border[i].y1

\* MultiPolygon(burst.border).contains(Point(lon, lat))
Contains(border, lon, lat) ==
    \E i \in 1..Len(border) :
        /\ border[i].x0 < lon /\ lon < border[i].x1
        /\ border[i].y0 < lat /\ lat < border[i].y1

Rect(x0, x1, y0, y1) == [x0 |-> x0, x1 |-> x1, y0 |-> y0, y1 |-> y1]

\* ------------------------------------------------- the external raster
\* gdal geotransform (originX, pixelWidth, 0, originY, 0, pixelHeight), the
\* raster size, and band 1 as a function of the pixel.
Raster(ox, pw, oy, ph, xs, ys) ==
    [gt |-> <<ox, pw, 0, oy, 0, ph>>, xsize |-> xs, ysize |-> ys]

\* the raster the command line tool is run against in Spec
DemFile == Raster(1, 1, 1, -2, 2, 1)

\* value of band 1 at pixel (px, py)
BandValue(px, py) == 1 + px + 2 * py

\* band.ReadAsArray(px, py, 1, 1): None (and .item() then raises) when the
\* 1x1 window is not inside the raster
InRaster(ds, px, py) ==
    /\ 0 <= px /\ px < ds.xsize
    /\ 0 <= py /\ py < ds.ysize

\* ------------------------------------------------ the external products
Upper(pol) ==
    CASE pol = "vv" -> "VV"
      [] pol = "vh" -> "VH"
      [] pol = "hh" -> "HH"
      [] pol = "hv" -> "HV"

RawBurst(id, border, ss, ati, sr, rps) ==
    [id |-> id, border |-> border, sensing_start |-> ss, az_time_interval |-> ati,
     starting_range |-> sr, range_pixel_spacing |-> rps]

\* an interferometric wide swath product: bursts of sub-swaths 1, 2, 3
IwProduct ==
    [name |-> "S1A_IW_SLC", mode |-> "IW", platform_id |-> "S1A", beam |-> 0,
     t |-> 1, r |-> 3, shape |-> <<2, 3>>,
     swaths |-> <<
        << RawBurst("t064_135518_iw1", <<Rect(-1, 1, -1, 2)>>, 0, 2, 0, 2),
           RawBurst("t064_135519_iw1", <<Rect(-1, 2, 0, 2)>>, 5, 2, 0, 1) >>,
        << RawBurst("t064_135518_iw2", <<Rect(-1, 3, -1, 1)>>, 6, 2, 10, 2) >>,
        << RawBurst("t064_135518_iw3", <<Rect(1, 3, 0, 2)>>, 0, 1, 0, 1) >> >>]

\* tests/test_stripmap.py: the S1C S3 stripmap product (one swath, beam 3)
StripmapS1C ==
    [name |-> "S1C_S3_SLC", mode |-> "SM", platform_id |-> "S1C", beam |-> 3,
     t |-> 2, r |-> 1, shape |-> <<39169, 19118>>,
     swaths |-> <<
        <<>>, <<>>,
        << RawBurst("", <<Rect(-1, 1, -1, 1), Rect(1, 3, 0, 2)>>, 0, 2, 0, 2) >> >>]

\* tests/test_stripmap.py: the S1B S3 stripmap product
StripmapS1B ==
    [name |-> "S1B_S3_SLC", mode |-> "SM", platform_id |-> "S1B", beam |-> 3,
     t |-> 2, r |-> 1, shape |-> <<45658, 19118>>,
     swaths |-> <<
        <<>>, <<>>,
        << RawBurst("", <<Rect(-1, 2, -1, 2)>>, 0, 2, 0, 2) >> >>]

Products == {IwProduct, StripmapS1C}

\* the burst object the loader builds for entry k of sub-swath swath_num
BurstObject(prod, orb, swath_num, pol, k) ==
    LET raw == prod.swaths[swath_num][k]
    IN  [burst_id |-> IF prod.mode = "SM" THEN None ELSE Some(raw.id),
         iw |-> swath_num,
         polarization |-> Upper(pol),
         platform_id |-> prod.platform_id,
         shape |-> prod.shape,
         border |-> Some(raw.border),
         center |-> Some(<<raw.border[1].x0 + raw.border[1].x1,
                           raw.border[1].y0 + raw.border[1].y1>>),
         orbit |-> Some([src |-> orb, t |-> prod.t, r |-> prod.r]),
         wavelength |-> 1,
         tiff_path |-> <<prod.name, swath_num, pol>>,
         sensing_start |-> raw.sensing_start,
         az_time_interval |-> raw.az_time_interval,
         starting_range |-> raw.starting_range,
         range_pixel_spacing |-> raw.range_pixel_spacing]

\* a loader that reads the burst list only: a stripmap swath has none
load_bursts_burst_list_only(prod, orb, swath_num, pol) ==
    IF prod.mode = "SM"
    THEN <<>>
    ELSE [k \in 1..Len(prod.swaths[swath_num]) |->
             BurstObject(prod, orb, swath_num, pol, k)]

\* s1reader.load_bursts(s1_file, orb_file, swath_num, pol): the bursts of
\* the sub-swath in acquisition order; for a stripmap product one object
\* for the whole swath, with no burst id
load_bursts(prod, orb, swath_num, pol) ==
    IF prod.mode = "SM"
    THEN IF swath_num = prod.beam
         THEN <<BurstObject(prod, orb, swath_num, pol, 1)>>
         ELSE <<>>
    ELSE [k \in 1..Len(prod.swaths[swath_num]) |->
             BurstObject(prod, orb, swath_num, pol, k)]

\* s1reader.get_orbit_file_from_dir(s1_file, orbit_dir=orbit_dir)
get_orbit_file_from_dir(prod, orbit_dir) == <<orbit_dir, prod.platform_id>>

\* burst.as_isce3_radargrid(): the four grid parameters main reads
as_isce3_radargrid(burst) ==
    [sensing_start |-> burst.sensing_start,
     az_time_interval |-> burst.az_time_interval,
     starting_range |-> burst.starting_range,
     range_pixel_spacing |-> burst.range_pixel_spacing]

\* s1geo2rdr(lon, lat, h, burst): the solver is external; the model stands
\* in for it with a deterministic map of the point, the height and the
\* burst's orbit to (azimuth time, slant range), in ticks
s1geo2rdr(lon, lat, hgt, burst) ==
    <<burst.orbit[1].t + lat + hgt, burst.orbit[1].r + lon + hgt>>

\* ------------------------------------------------------ the command line
\* argparse: --buffer default
DefaultBuffer == 100

\* range(1, 4): the last sub-swath
LastIw == 3

\* the namespaces parse_args can return, within the bounds
ArgSpace ==
    [lon : 0..MaxLon,
     lat : 0..MaxLat,
     orbit_dir : {None, Some("orbits")},
     dem : {None, Some("dem.tif")},
     height : {None, Some(0), Some(3)},
     pol : {"vv", "vh"},
     iw : {None} \cup {Some(i) : i \in 1..LastIw},
     burst_id : {None, Some("t064_135518_iw1"), Some("None")},
     outfile : {None, Some("out.tif")},
     buffer : {DefaultBuffer} \cup (1..MaxBuffer)]

\* the first line main prints
Header == [text |-> "lon,lat,az_idx,range_idx,burst_id,tiff_path"]

\* str() of an optional burst id, as the f-string formats it
Str(id) == IF id = None THEN "None" ELSE id[1]

\* the data row of line 146
Row(lon, lat, az_idx, range_idx, burst) ==
    [lon |-> lon, lat |-> lat, az_idx |-> az_idx, range_idx |-> range_idx,
     burst_id |-> Str(burst.burst_id), tiff_path |-> burst.tiff_path]

Call(fn, a) == [fn |-> fn, a |-> a]

\* An external call's outcome (TRUE: it returns, FALSE: it raises) is a
\* choice of the environment the first time, and the same ever after.
Outcomes(id) ==
    IF \E o \in oracle : o[1] = id
    THEN {o[2] : o \in {x \in oracle : x[1] = id}}
    ELSE BOOLEAN

Raise(name) ==
    /\ error' = Some(name)
    /\ pc' = "failed"

\* "if args.height:" in place of "is not None": 0.0 counts as absent
HeightSourceTruthy(a) ==
    IF a.height # None /\ a.height[1] # 0 THEN "height"
    ELSE IF a.dem # None THEN "dem"
    ELSE "error"

\* lines 122-127: which branch of the height resolution is taken
HeightSource(a) ==
    IF a.height # None THEN "height"
    ELSE IF a.dem # None THEN "dem"
    ELSE "error"

\* the header printed before the arguments are checked
ResolveHeightHeaderFirst ==
    /\ pc = "start"
    /\ stdout' = Append(stdout, Header)
    /\ CASE HeightSource(args) = "height" ->
              /\ h' = args.height
              /\ pc' = "orbit"
              /\ error' = error
         [] HeightSource(args) = "dem" ->
              /\ h' = h
              /\ pc' = "dem"
              /\ error' = error
         [] OTHER ->
              /\ h' = h
              /\ Raise("ValueError")
    /\ UNCHANGED <<args, product, dem, calls, files, orb_file, iw, loaded,
                   bursts, idx, window, oracle, run, prev>>

\* lines 119-127
ResolveHeight ==
    /\ pc = "start"
    /\ CASE HeightSource(args) = "height" ->
              /\ h' = args.height
              /\ pc' = "header"
              /\ error' = error
         [] HeightSource(args) = "dem" ->
              /\ h' = h
              /\ pc' = "dem"
              /\ error' = error
         [] OTHER ->
              /\ h' = h
              /\ Raise("ValueError")
    /\ UNCHANGED <<args, product, dem, stdout, calls, files, orb_file, iw, loaded,
                   bursts, idx, window, oracle, run, prev>>

\* line 18: px = int((lon - gt[0]) / gt[1])
PixelX(lon, gt) == TruncDiv(lon - gt[1], gt[2])

\* line 19: py = int((lat - gt[3]) / gt[5])
PixelY(lat, gt) == TruncDiv(lat - gt[4], gt[6])

\* lines 14-21 and 125: _get_height_from_dem(lon, lat, dem_file)
GetHeightFromDem ==
    /\ pc = "dem"
    /\ \E ok \in Outcomes(<<"gdal.Open", 0>>) :
        LET px == PixelX(args.lon, dem.gt)
            py == PixelY(args.lat, dem.gt)
            open == Call("gdal.Open", <<args.dem[1]>>)
            read == Call("ReadAsArray", <<1, px, py, 1, 1>>)
        IN  /\ oracle' = oracle \cup {<<<<"gdal.Open", 0>>, ok>>}
            /\ IF ~ok
               THEN /\ calls' = Append(calls, open)
                    /\ h' = h
                    /\ Raise("OpenError")
               ELSE /\ calls' = calls \o <<open, read>>
                    /\ IF InRaster(dem, px, py)
                       THEN /\ h' = Some(BandValue(px, py))
                            /\ pc' = "header"
                            /\ error' = error
                       ELSE /\ h' = h
                            /\ Raise("ReadError")
    /\ UNCHANGED <<args, product, dem, stdout, files, orb_file, iw, loaded,
                   bursts, idx, window, run, prev>>

\* the header line left out
PrintHeaderMissing ==
    /\ pc = "header"
    /\ pc' = "orbit"
    /\ UNCHANGED <<args, product, dem, h, stdout, calls, files, orb_file, iw, loaded,
                   bursts, idx, window, error, oracle, run, prev>>

\* line 130
PrintHeader ==
    /\ pc = "header"
    /\ stdout' = Append(stdout, Header)
    /\ pc' = "orbit"
    /\ UNCHANGED <<args, product, dem, h, calls, files, orb_file, iw, loaded,
                   bursts, idx, window, error, oracle, run, prev>>

\* lines 100-105: the orbit file, then bursts = []
ResolveOrbit ==
    /\ pc = "orbit"
    /\ IF args.orbit_dir = None
       THEN /\ orb_file' = None
            /\ pc' = "load"
            /\ bursts' = <<>>
            /\ iw' = 1
            /\ UNCHANGED <<calls, error, oracle>>
       ELSE \E ok \in Outcomes(<<"get_orbit_file_from_dir", 0>>) :
            /\ oracle' = oracle \cup {<<<<"get_orbit_file_from_dir", 0>>, ok>>}
            /\ calls' = Append(calls, Call("get_orbit_file_from_dir",
                                           <<product.name, args.orbit_dir[1]>>))
            /\ IF ok
               THEN /\ orb_file' = Some(get_orbit_file_from_dir(product, args.orbit_dir[1]))
                    /\ pc' = "load"
                    /\ bursts' = <<>>
                    /\ iw' = 1
                    /\ error' = error
               ELSE /\ Raise("OrbitError")
                    /\ UNCHANGED <<orb_file, bursts, iw>>
    /\ UNCHANGED <<args, product, dem, h, stdout, files, loaded, idx, window,
                   run, prev>>

\* the search stopping at the first hit of a sub-swath
OverlappingFirstOnly(bs, lon, lat) ==
    LET hits == SelectSeq(bs, LAMBDA b : Contains(b.border[1], lon, lat))
    IN  IF hits = <<>> THEN <<>> ELSE <<hits[1]>>

\* line 110: the bursts of a loaded sub-swath that are kept
Overlapping(bs, lon, lat) ==
    SelectSeq(bs, LAMBDA b : Contains(b.border[1], lon, lat))

\* a stop as soon as the requested sub-swath is loaded
LoopExhaustedAtRequested(i) ==
    \/ i = LastIw
    \/ args.iw # None /\ args.iw[1] = i

\* line 106: range(1, 4) has no value after i
LoopExhausted(i) == i = LastIw

\* lines 106-112: one iteration of the sub-swath loop, and the return
LoadSwath ==
    /\ pc = "load"
    /\ \E ok \in Outcomes(<<"load_bursts", iw>>) :
        /\ oracle' = oracle \cup {<<<<"load_bursts", iw>>, ok>>}
        /\ calls' = Append(calls, Call("load_bursts",
                                       <<product.name, orb_file, iw, args.pol>>))
        /\ IF ok
           THEN /\ loaded' = load_bursts(product, orb_file, iw, args.pol)
                /\ bursts' = bursts \o Overlapping(loaded', args.lon, args.lat)
                /\ IF LoopExhausted(iw)
                   THEN /\ pc' = "loop"
                        /\ idx' = 1
                        /\ iw' = iw
                   ELSE /\ pc' = "load"
                        /\ idx' = idx
                        /\ iw' = iw + 1
                /\ error' = error
           ELSE /\ Raise("LoadError")
                /\ UNCHANGED <<loaded, bursts, idx, iw>>
    /\ UNCHANGED <<args, product, dem, h, stdout, files, orb_file, window, run, prev>>

\* the sub-swath filter left out
SkippedIgnoringIw(a, burst) ==
    a.burst_id # None /\ a.burst_id # burst.burst_id

\* lines 134-137: the burst is passed over
Skipped(a, burst) ==
    \/ a.burst_id # None /\ a.burst_id # burst.burst_id
    \/ a.iw # None /\ a.iw[1] # burst.iw

\* lines 131-137: continue
SkipBurst ==
    /\ pc = "loop"
    /\ idx <= Len(bursts)
    /\ Skipped(args, bursts[idx])
    /\ idx' = idx + 1
    /\ UNCHANGED <<args, product, dem, pc, h, stdout, calls, files, orb_file, iw,
                   loaded, bursts, window, error, oracle, run, prev>>

\* lines 142-143: the pixel index of a radar coordinate
PixelIndex(value, start, spacing) == Round(value - start, spacing)

\* lines 148-151: rows, cols
Window(az_idx, range_idx, buf) ==
    [rows |-> <<az_idx - buf, az_idx + buf + 1>>,
     cols |-> <<range_idx - buf, range_idx + buf + 1>>]

\* the window cut out and saved to --outfile
OutfileBlockSaving(az_idx, range_idx) ==
    IF args.outfile # None
    THEN [window |-> Some(Window(az_idx, range_idx, args.buffer)),
          files |-> files \cup {args.outfile[1]}]
    ELSE [window |-> window, files |-> files]

\* lines 148-151: the --outfile block binds buf, rows, cols and does nothing
\* with them
OutfileBlock(az_idx, range_idx) ==
    IF args.outfile # None
    THEN [window |-> Some(Window(az_idx, range_idx, args.buffer)), files |-> files]
    ELSE [window |-> window, files |-> files]

\* lines 139-151: one burst converted and printed
ConvertBurst ==
    /\ pc = "loop"
    /\ idx <= Len(bursts)
    /\ ~Skipped(args, bursts[idx])
    /\ \E ok \in Outcomes(<<"geo2rdr", idx>>) :
        LET burst == bursts[idx]
            rg == as_isce3_radargrid(burst)
            sol == s1geo2rdr(args.lon, args.lat, h[1], burst)
            az_idx == PixelIndex(sol[1], rg.sensing_start, rg.az_time_interval)
            range_idx == PixelIndex(sol[2], rg.starting_range, rg.range_pixel_spacing)
        IN  /\ oracle' = oracle \cup {<<<<"geo2rdr", idx>>, ok>>}
            /\ calls' = Append(calls, Call("geo2rdr",
                   <<args.lon, args.lat, h[1], burst.orbit, burst.wavelength, "Right">>))
            /\ IF ok
               THEN /\ stdout' = Append(stdout,
                                        Row(args.lon, args.lat, az_idx, range_idx, burst))
                    /\ window' = OutfileBlock(az_idx, range_idx).window
                    /\ files' = OutfileBlock(az_idx, range_idx).files
                    /\ idx' = idx + 1
                    /\ UNCHANGED <<pc, error>>
               ELSE /\ Raise("Geo2rdrError")
                    /\ UNCHANGED <<stdout, window, files, idx>>
    /\ UNCHANGED <<args, product, dem, h, orb_file, iw, loaded, bursts, run, prev>>

\* the for loop of line 131 is exhausted: main returns
Finish ==
    /\ pc = "loop"
    /\ idx > Len(bursts)
    /\ pc' = "done"
    /\ UNCHANGED <<args, product, dem, h, stdout, calls, files, orb_file, iw, loaded,
                   bursts, idx, window, error, oracle, run, prev>>

\* lines 154-155: the tool is invoked again on the same external data with
\* other values of --outfile and --buffer and the other arguments unchanged
Rerun ==
    /\ pc \in {"done", "failed"}
    /\ run = 1
    /\ \E o \in {None, Some("out.tif")}, b \in {DefaultBuffer} \cup (1..MaxBuffer) :
        args' = [args EXCEPT !.outfile = o, !.buffer = b]
    /\ prev' = [stdout |-> stdout, calls |-> calls, files |-> files, error |-> error,
                outfile |-> args.outfile]
    /\ run' = 2
    /\ pc' = "start"
    /\ h' = None
    /\ stdout' = <<>>
    /\ calls' = <<>>
    /\ files' = {}
    /\ orb_file' = None
    /\ iw' = 0
    /\ loaded' = <<>>
    /\ bursts' = <<>>
    /\ idx' = 0
    /\ window' = None
    /\ error' = None
    /\ UNCHANGED <<product, dem, oracle>>

\* the state after parse_args (line 117)
Start(a, p, d) ==
    /\ args = a
    /\ product = p
    /\ dem = d
    /\ pc = "start"
    /\ h = None
    /\ stdout = <<>>
    /\ calls = <<>>
    /\ files = {}
    /\ orb_file = None
    /\ iw = 0
    /\ loaded = <<>>
    /\ bursts = <<>>
    /\ idx = 0
    /\ window = None
    /\ error = None
    /\ oracle = {}
    /\ run = 1
    /\ prev = [stdout |-> <<>>, calls |-> <<>>, files |-> {}, error |-> None,
                   outfile |-> None]

Init == \E a \in ArgSpace, p \in Products : Start(a, p, DemFile)

Next ==
    \/ ResolveHeight
    \/ GetHeightFromDem
    \/ PrintHeader
    \/ ResolveOrbit
    \/ LoadSwath
    \/ SkipBurst
    \/ ConvertBurst
    \/ Finish
    \/ Rerun

Spec == Init /\ [][Next]_vars

\* ------------------------------------------- the DEM lookup on its own
MaxDemCoord == 3

\* the rasters of DemSpec: origins, pixel sizes of either sign, 2 x 2 pixels
DemFiles ==
    {Raster(ox, pw, oy, ph, 2, 2) :
        ox \in {0, 1}, pw \in {1, 2, -2}, oy \in {0, 1}, ph \in {-1, -2, 2}}

\* main called with --dem and no --height, on any point and raster
DemInit ==
    \E lon \in (-MaxDemCoord)..MaxDemCoord, lat \in (-MaxDemCoord)..MaxDemCoord,
       d \in DemFiles :
        Start([lon |-> lon, lat |-> lat, orbit_dir |-> None, dem |-> Some("dem.tif"),
               height |-> None, pol |-> "vv", iw |-> None, burst_id |-> None,
               outfile |-> None, buffer |-> DefaultBuffer],
              IwProduct, d)

DemNext ==
    \/ ResolveHeight
    \/ GetHeightFromDem

DemSpec == DemInit /\ [][DemNext]_vars

\* ------------------------------------------------ tests/test_stripmap.py
OrbitPaths == {None, Some("S1C_OPER_AUX_POEORB"), Some("S1B_OPER_AUX_POEORB")}

\* a test about to call s1reader.load_bursts(safe_path, orbit_path,
\* swath_num=iw, pol=args.pol)
TestInit ==
    \E p \in {IwProduct, StripmapS1C, StripmapS1B}, o \in OrbitPaths,
       n \in 1..LastIw, pol \in {"vv", "vh"} :
        /\ args = [lon |-> 0, lat |-> 0, orbit_dir |-> None, dem |-> None,
                   height |-> None, pol |-> pol, iw |-> None, burst_id |-> None,
                   outfile |-> None, buffer |-> DefaultBuffer]
        /\ product = p
        /\ dem = DemFile
        /\ pc = "test"
        /\ h = None
        /\ stdout = <<>>
        /\ calls = <<>>
        /\ files = {}
        /\ orb_file = o
        /\ iw = n
        /\ loaded = <<>>
        /\ bursts = <<>>
        /\ idx = 0
        /\ window = None
        /\ error = None
        /\ oracle = {}
        /\ run = 1
        /\ prev = [stdout |-> <<>>, calls |-> <<>>, files |-> {}, error |-> None,
                   outfile |-> None]

\* lines 24, 68, 104, 109 of the tests: bursts = s1reader.load_bursts(...)
test_load_stripmap ==
    /\ pc = "test"
    /\ loaded' = load_bursts(product, orb_file, iw, args.pol)
    /\ calls' = Append(calls, Call("load_bursts",
                                   <<product.name, orb_file, iw, args.pol>>))
    /\ pc' = "loaded"
    /\ UNCHANGED <<args, product, dem, h, stdout, files, orb_file, iw, bursts, idx,
                   window, error, oracle, run, prev>>

TestNext == test_load_stripmap

TestSpec == TestInit /\ [][TestNext]_vars

\* ---------------------------------------------------------- properties
\* positions in the call log of the calls of fn
CallsOf(fn) == {i \in 1..Len(calls) : calls[i].fn = fn}

\* the printed line is the data row of burst b
RowIsFor(line, b) ==
    /\ line # Header
    /\ line.tiff_path = b.tiff_path
    /\ \/ b.burst_id = None /\ line.burst_id = "None"
       \/ b.burst_id # None /\ line.burst_id = b.burst_id[1]

\* everything the loader yields for sub-swaths 1, 2, 3, in that order
Yielded ==
    load_bursts(product, orb_file, 1, args.pol)
        \o load_bursts(product, orb_file, 2, args.pol)
        \o load_bursts(product, orb_file, 3, args.pol)

\* _get_overlapping_bursts has returned to main
SearchReturned ==
    \/ pc \in {"loop", "done"}
    \/ pc = "failed" /\ error = Some("Geo2rdrError")

C1_Hits ==
    {i \in 1..Len(Yielded) : Contains(Yielded[i].border[1], args.lon, args.lat)}

C1_Nth(j) == CHOOSE i \in C1_Hits : Cardinality({k \in C1_Hits : k <= i}) = j

\* C1: the list _get_overlapping_bursts returns is the sub-sequence of the
\* loader's bursts (sub-swaths 1, 2, 3 concatenated, loader order kept)
\* whose footprint contains the point: each hit once, in order, nothing
\* else, and the empty list when no footprint contains the point.
C1_OverlappingIsSubsequence ==
    SearchReturned =>
        /\ Len(bursts) = Cardinality(C1_Hits)
        /\ \A j \in 1..Len(bursts) : bursts[j] = Yielded[C1_Nth(j)]

C1_Witness ==
    /\ pc = "loop"
    /\ Len(bursts) = 2
    /\ bursts[1].iw # bursts[2].iw
    /\ Len(Yielded) > Len(bursts)

\* the bursts of the returned list that pass both filters, in list order
C2_Qualifying == SelectSeq(bursts, LAMBDA b : ~Skipped(args, b))

\* C2: once the height is resolved the header is the first line printed,
\* it is printed once, nothing is printed before it, and the data rows are
\* the rows of the qualifying bursts in the order of the returned list, one
\* row per burst (all of them when main returns).
C2_HeaderThenRowsInOrder ==
    /\ (h = None \/ pc = "header") => stdout = <<>>
    /\ (h # None /\ pc # "header") =>
          /\ Len(stdout) >= 1
          /\ stdout[1] = Header
          /\ \A i \in 2..Len(stdout) : stdout[i] # Header
    /\ ~SearchReturned => Len(stdout) <= 1
    /\ SearchReturned =>
          /\ Len(stdout) - 1 <= Len(C2_Qualifying)
          /\ \A j \in 1..(Len(stdout) - 1) : RowIsFor(stdout[j + 1], C2_Qualifying[j])
          /\ \A i, j \in 2..Len(stdout) :
                (i # j) => ~(/\ stdout[i].burst_id = stdout[j].burst_id
                             /\ stdout[i].tiff_path = stdout[j].tiff_path)
    /\ pc = "done" => Len(stdout) - 1 = Len(C2_Qualifying)

C2_Witness ==
    /\ pc = "done"
    /\ Len(bursts) = 2
    /\ Len(stdout) = 3

C3_Qualifies(b) ==
    /\ args.burst_id = None \/ args.burst_id = b.burst_id
    /\ args.iw = None \/ args.iw[1] = b.iw

C3_HasRow(b) == \E i \in 2..Len(stdout) : RowIsFor(stdout[i], b)

\* C3: a burst of the returned list that main has gone past has a data row
\* if and only if --burst-id is absent or equal to its burst_id and --iw is
\* absent or equal to its sub-swath; a burst without burst_id has no row
\* whenever --burst-id is given.
C3_RowIffFiltersPass ==
    pc \in {"loop", "done"} =>
        \A j \in 1..(idx - 1) :
            /\ C3_HasRow(bursts[j]) <=> C3_Qualifies(bursts[j])
            /\ (bursts[j].burst_id = None /\ args.burst_id # None)
                   => ~C3_HasRow(bursts[j])

C3_Witness ==
    /\ pc = "done"
    /\ args.iw # None
    /\ args.burst_id # None
    /\ Len(bursts) = 2
    /\ Len(stdout) = 2

\* C4: with neither --height nor --dem main ends with the ValueError, having
\* made no external call (no DEM open, no orbit resolution, no product
\* load), created no file and printed nothing.
C4_NoHeightSourceFailsFirst ==
    (args.height = None /\ args.dem = None /\ pc # "start") =>
        /\ pc = "failed"
        /\ error = Some("ValueError")
        /\ calls = <<>>
        /\ stdout = <<>>
        /\ files = {}

C4_Witness ==
    /\ pc = "failed"
    /\ error = Some("ValueError")
    /\ args.orbit_dir # None

\* C5: --height wins over --dem: with --height given (0 included) the DEM is
\* never opened or read and every geo2rdr call gets exactly that height;
\* the DEM is opened at most once, and only without --height and with
\* --dem; all geo2rdr calls of a run get the same height.
C5_HeightPrecedence ==
    /\ args.height # None =>
          /\ CallsOf("gdal.Open") = {}
          /\ CallsOf("ReadAsArray") = {}
          /\ h # None => h = args.height
          /\ \A i \in CallsOf("geo2rdr") : calls[i].a[3] = args.height[1]
    /\ Cardinality(CallsOf("gdal.Open")) <= 1
    /\ CallsOf("gdal.Open") # {} => (args.height = None /\ args.dem # None)
    /\ \A i \in CallsOf("geo2rdr") : h # None /\ calls[i].a[3] = h[1]

C5_Witness ==
    /\ pc = "done"
    /\ args.height = Some(0)
    /\ args.dem # None
    /\ Cardinality(CallsOf("geo2rdr")) = 2

\* C6: the window _get_height_from_dem reads is the single 1x1 window of
\* band 1 at px = floor((lon - originX) / pixelWidth),
\* py = floor((lat - originY) / pixelHeight), wherever the point lies.
C6_PixelIsFloor ==
    /\ Cardinality(CallsOf("ReadAsArray")) <= 1
    /\ \A i \in CallsOf("ReadAsArray") :
          calls[i].a = <<1, FloorDiv(args.lon - dem.gt[1], dem.gt[2]),
                            FloorDiv(args.lat - dem.gt[4], dem.gt[6]), 1, 1>>

\* C7: load_bursts on a stripmap product, swath 3, with an orbit file, for
\* vv and for vh, returns one burst object, without burst_id, with the
\* upper-cased polarization and with orbit, center and border present.
C7_StripmapLoadsOneBurst ==
    (pc = "loaded" /\ product.mode = "SM" /\ iw = 3 /\ orb_file # None) =>
        /\ Len(loaded) = 1
        /\ loaded[1].burst_id = None
        /\ args.pol = "vv" => loaded[1].polarization = "VV"
        /\ args.pol = "vh" => loaded[1].polarization = "VH"
        /\ loaded[1].orbit # None
        /\ loaded[1].center # None
        /\ loaded[1].border # None

C7_Witness ==
    /\ pc = "loaded"
    /\ product.mode = "SM"
    /\ iw = 3
    /\ orb_file # None
    /\ args.pol = "vh"
    /\ Len(loaded) = 1

\* i is a nearest integer to n / d (d > 0), the even one at an exact half
C8_NearestEven(i, n, d) ==
    /\ 2 * Abs(i * d - n) <= d
    /\ 2 * Abs(i * d - n) = d => i % 2 = 0

\* the azimuth and range quotients (numerator, denominator) of burst b
C8_Az(b) ==
    <<s1geo2rdr(args.lon, args.lat, h[1], b)[1] - b.sensing_start, b.az_time_interval>>

C8_Rg(b) ==
    <<s1geo2rdr(args.lon, args.lat, h[1], b)[2] - b.starting_range, b.range_pixel_spacing>>

\* C8: in every printed row az_idx and range_idx are the nearest integers to
\* (azimuth_time - sensing_start) / az_time_interval and
\* (slant_range - starting_range) / range_pixel_spacing, an exact half going
\* to the even integer; nothing is clamped to the image, so the index is
\* that integer also when it is negative or beyond the image.
C8_IndicesRoundHalfEven ==
    \A k \in 2..Len(stdout) : \A j \in 1..Len(bursts) :
        RowIsFor(stdout[k], bursts[j]) =>
            /\ C8_NearestEven(stdout[k].az_idx, C8_Az(bursts[j])[1], C8_Az(bursts[j])[2])
            /\ C8_NearestEven(stdout[k].range_idx, C8_Rg(bursts[j])[1], C8_Rg(bursts[j])[2])

\* a printed row whose azimuth quotient is an exact half below zero and
\* whose range index lies beyond the image width
C8_Witness ==
    \E k \in 2..Len(stdout) : \E j \in 1..Len(bursts) :
        /\ RowIsFor(stdout[k], bursts[j])
        /\ 2 * Abs(stdout[k].az_idx * C8_Az(bursts[j])[2] - C8_Az(bursts[j])[1])
              = C8_Az(bursts[j])[2]
        /\ C8_Az(bursts[j])[1] < 0
        /\ stdout[k].range_idx >= bursts[j].shape[2]

C10_LoadedSwaths ==
    [k \in 1..Cardinality(CallsOf("load_bursts")) |->
        calls[CHOOSE i \in CallsOf("load_bursts") :
                Cardinality({m \in CallsOf("load_bursts") : m <= i}) = k].a[3]]

\* C10: the orbit resolution and the loads of sub-swaths 1, 2, 3 (all three,
\* whatever --iw is) come after the header and before the first data row:
\* when one of them fails the output is the header alone, and when the DEM
\* read fails the output is empty.
C10_SearchBetweenHeaderAndRows ==
    /\ (CallsOf("load_bursts") \cup CallsOf("get_orbit_file_from_dir")) # {}
          => (Len(stdout) >= 1 /\ stdout[1] = Header)
    /\ (Len(stdout) >= 2 \/ SearchReturned) =>
          /\ C10_LoadedSwaths = <<1, 2, 3>>
          /\ args.orbit_dir # None => CallsOf("get_orbit_file_from_dir") # {}
    /\ error \in {Some("OrbitError"), Some("LoadError")} => stdout = <<Header>>
    /\ error \in {Some("OpenError"), Some("ReadError")} => stdout = <<>>

C10_Witness ==
    /\ pc = "failed"
    /\ error = Some("LoadError")
    /\ iw = 3
    /\ args.iw = Some(1)
    /\ Len(bursts) >= 1
    /\ stdout = <<Header>>

====
